---- MODULE Spec2Model ----
(***************************************************************************)
(* Xray_bot: the credential store (db.py), the proxy daemon reached        *)
(* through XrayManager (server_manager.py), the chat handlers (bot.py)     *)
(* and the synchronisation service (sync_service.py).                      *)
(*                                                                         *)
(* Every coroutine runs on one asyncio event loop.  A handler is a         *)
(* process whose steps are the code between two awaits that reach the      *)
(* store; XrayManager.add_user / remove_user run subprocess.run, which     *)
(* blocks the loop, so a daemon call is a pair of steps (issued, returned) *)
(* during which no other coroutine takes a step.                           *)
(*                                                                         *)
(* The daemon is the environment: a call ends with return code 0 or not,   *)
(* and only a call that ended with 0 changed the daemon.                   *)
(***************************************************************************)
EXTENDS Integers, Sequences, FiniteSets, TLC

\* ---------------------------------------------------------------- bounds
PlatformBase == 100
NUsers == 2
MaxKeys == 2
MaxUuid == 2
NProcs == 2
MaxPasses == 2
MaxNow == 2
MaxBytes == 2
MaxVersion == 3

\* the unit of the clock is the validity of a key (timedelta(days=30)); the
\* unit of the traffic counters is the quota of a key (1 GB)
days_valid == 1
data_limit_gb == 1

PlatformIds == (PlatformBase + 1)..(PlatformBase + NUsers)
Procs == 1..NProcs
FS == 0
CS == NProcs + 1

VARIABLES users, keys, xray, nextUuid, procs, fs, inflight, last_sync, life,
          now, subs, cs, daemon, obs, boot

vars == <<users, keys, xray, nextUuid, procs, fs, inflight, last_sync, life,
          now, subs, cs, daemon, obs, boot>>

\* ---------------------------------------------------------------- store
\* users[i] is the telegram_id of the User row with id = i (autoincrement).
UserIds == 1..Len(users)

UserRowsOf(tg) == {i \in UserIds : users[i] = tg}

\* scalar_one_or_none() over select(User).where(User.telegram_id == tg);
\* 0 stands for None (telegram_id is unique, so there is at most one row).
get_user(tg) == IF UserRowsOf(tg) = {} THEN 0 ELSE CHOOSE i \in UserRowsOf(tg) : TRUE

KeyIds == 1..Len(keys)

\* UserKey row: is_active defaults to True, used_bytes to 0, data_limit_bytes
\* to 1 GB; every place that makes a key sets expires_at 30 days ahead.
UserKey(user_id, uuid) ==
    [user_id |-> user_id, uuid |-> uuid, is_active |-> TRUE,
     expires_at |-> now + days_valid, data_limit_bytes |-> data_limit_gb,
     used_bytes |-> 0]

\* (variant for C22: the key is expired from its expiry time on)
is_expired_inclusive(key) == key.expires_at # 0 /\ now >= key.expires_at

\* UserKey.is_expired: expires_at and datetime.now() > expires_at (0 = None)
is_expired(key) == key.expires_at # 0 /\ now > key.expires_at

\* UserKey.data_remaining: max(0, data_limit_bytes - used_bytes)
data_remaining(key) ==
    IF key.data_limit_bytes - key.used_bytes > 0
    THEN key.data_limit_bytes - key.used_bytes ELSE 0

\* (variant for C23: a key at its limit still has data)
has_data_inclusive(key) == data_remaining(key) >= 0

\* UserKey.has_data
has_data(key) == data_remaining(key) > 0

ActiveKeyIds(uid) == {k \in KeyIds : keys[k].user_id = uid /\ keys[k].is_active}

AllActiveKeyIds == {k \in KeyIds : keys[k].is_active}

Min(S) == CHOOSE x \in S : \A y \in S : x <= y
Max(S) == CHOOSE x \in S : \A y \in S : x >= y

\* f"user_{id}@xray.com"
Email(n) == <<"user_", n, "@xray.com">>

\* the identities the daemon holds, by tag
XrayEmails == {r.email : r \in xray}

\* ---------------------------------------------------------------- processes
\* life[t] follows one user through create (1), renew (2) and delete (3), each
\* accepted by the daemon (history variable).
\* qerr = the membership query of the handler failed with an error; out = the
\* daemon's answer to the handler's last call (history variables); log = what
\* the wrapper of a sync has logged.
\* body = how far the handler wrapped by sync_on_action is, result = what it
\* returned, syncs = the number of calls of sync_user_on_action the wrapper
\* has made, returned = what the wrapper returns (history variables).
Idle == [pc |-> "idle", tg |-> 0, uid |-> 0, key |-> 0, uuid |-> 0,
         action |-> "none", ret |-> FALSE, hist |-> <<>>,
         qerr |-> FALSE, out |-> "none", log |-> "none",
         body |-> "none", result |-> "none", syncs |-> 0, returned |-> "none"]

NoStats == [added |-> 0, removed |-> 0, errors |-> 0]

\* The reconciliation task.  n counts the passes started.  clean, quiet,
\* second, D0, O0, X0, issued and failed are history variables: clean = nothing
\* but the pass changed store or daemon since the pass began; quiet = nothing
\* changed them since the last pass ended; second = the pass began right after
\* a completed clean pass with nothing in between; D0 / O0 = the tags with an active
\* key / the tags held by the daemon when the pass began; X0 = the active keys
\* that were expired or out of quota when the pass began; issued = the calls
\* of the pass; failed = the calls the daemon refused (position, tag, the
\* daemon's answer, the number of times the call was tried).  must_cancel =
\* Task.cancel() has been called on the task of the pass; late = the calls the
\* pass issued after that (history variable).
FsIdle == [pc |-> "idle", n |-> 0, db_users |-> <<>>, active_keys |-> <<>>, i |-> 0,
           xray_users |-> {}, rest |-> {}, stats |-> NoStats,
           clean |-> FALSE, quiet |-> FALSE, second |-> FALSE,
           D0 |-> {}, O0 |-> {}, X0 |-> {}, issued |-> {}, failed |-> {},
           must_cancel |-> FALSE, late |-> {}]

\* The membership task (check_subscriptions).  rows = the users with an active
\* subscription it selected, i = its position, dirty = the subscriptions it
\* has set inactive in its session.  lapsed, errored and calls are history
\* variables: the users it found not to be members, the users whose query
\* failed, the daemon calls it issued.
CsIdle == [pc |-> "idle", rows |-> <<>>, i |-> 0, dirty |-> {},
           lapsed |-> {}, errored |-> {}, calls |-> {}]

\* The Xray service of the host, as systemctl and the binary show it.
Service == [installed |-> TRUE, running |-> TRUE, version |-> 1]

\* obs = the last call of an operation that returns a value, with its
\* arguments and its result (history variable).
NoObs == [op |-> "none"]

\* setup_bot: max_retries = 5
max_retries == 5

\* The startup coroutine setup_bot.  attempt is the variable of its for loop;
\* running = scheduler.running; fails = what the attempts that failed so far
\* failed with, in order (history variable).  pc "init_db": the coroutine is
\* in the try of attempt `attempt`, up to the await of init_db.
Started == [pc |-> "init_db", attempt |-> 0, running |-> FALSE, fails |-> <<>>]

\* (variant for C9: the call is awaited, the loop keeps running other coroutines)
LoopFreeAwaited == TRUE

\* subprocess.run blocks the event loop: nothing else runs during a call.  Nor
\* does anything run before a coroutine that has its result (a sync that has
\* returned to its wrapper, a handler that only has its refusal left to send)
\* is over: no await that reaches store or daemon lies in between.
LoopFree ==
    /\ inflight = {}
    /\ \A q \in Procs : procs[q].pc \notin {"su_ret", "cs_denied", "so_ret", "so_raised"}

\* the dispatcher starts a handler for an update: the lowest free slot
FreeSlot(p) ==
    /\ procs[p].pc = "idle"
    /\ \A q \in Procs : q < p => procs[q].pc # "idle"

\* a call of XrayManager: subprocess.run is run once per call (tries)
Call(p, op, email, uuid, user) ==
    [proc |-> p, op |-> op, email |-> email, uuid |-> uuid, user |-> user,
     tries |-> 1]

Init ==
    /\ users = <<>>
    /\ keys = <<>>
    /\ xray = {}
    /\ nextUuid = 1
    /\ procs = [p \in Procs |-> Idle]
    /\ fs = FsIdle
    /\ inflight = {}
    /\ last_sync = 0
    /\ life = [t \in PlatformIds |-> 0]
    /\ now = 0
    /\ subs = <<>>
    /\ cs = CsIdle
    /\ daemon = Service
    /\ obs = NoObs
    /\ boot = Started


\* ---------------------------------------------------------------- daemon
\* XrayManager.add_user: ok = (returncode == 0).  Only an accepted call
\* changes the daemon; the daemon holds one identity per tag.
add_user(x, email, uuid, ok) ==
    IF ok THEN {r \in x : r.email # email} \cup {[email |-> email, uuid |-> uuid]}
          ELSE x

\* XrayManager.remove_user: ok = (returncode == 0).
remove_user(x, email, ok) ==
    IF ok THEN {r \in x : r.email # email} ELSE x

\* ServerManager.add_vless_user / remove_vless_user: issue the call.
add_vless_user(p, email, uuid, user) == inflight \cup {Call(p, "add", email, uuid, user)}

remove_vless_user(p, email, user) == inflight \cup {Call(p, "remove", email, 0, user)}

\* the calls left in flight when the call of process p has returned
Returned(p) == {c \in inflight : c.proc # p}

\* A step of anything but the reconciliation pass that changes store or daemon:
\* the history of the pass is dropped, and the result of a finished pass (a
\* value full_sync returned, kept for inspection) is no longer looked at.
Touch ==
    fs' = IF fs.pc = "done" THEN [FsIdle EXCEPT !.n = fs.n]
          ELSE [fs EXCEPT !.clean = FALSE, !.quiet = FALSE, !.second = FALSE,
                          !.D0 = {}, !.O0 = {}, !.X0 = {}, !.issued = {},
                          !.failed = {}]

TouchIf(changed) == IF changed THEN Touch ELSE UNCHANGED fs

\* one entry of a handler's own record of its daemon calls (history variable):
\* a call issued, or a call returned with its result
Ev(phase, op, email, ok) == <<phase, op, email, ok>>

\* the call of process p that is in flight
CallOf(p) == CHOOSE c \in inflight : c.proc = p

Waiting(p, op) == \E c \in inflight : c.proc = p /\ c.op = op

\* ---------------------------------------------------------------- key operations
\* db.create_key: insert a row, is_active defaults to True; nothing else changes.
create_key ==
    /\ LoopFree
    /\ Len(keys) < MaxKeys
    /\ nextUuid <= MaxUuid
    /\ \E uid \in UserIds :
         keys' = Append(keys, UserKey(uid, nextUuid))
    /\ nextUuid' = nextUuid + 1
    /\ Touch
    /\ UNCHANGED <<users, xray, procs, inflight, last_sync, life, now, subs, cs,
                   daemon, obs, boot>>

\* Database.generate_key: one transaction that deactivates the user's active
\* keys and inserts the new key (read as written, with the module's names bound).
generate_key ==
    /\ LoopFree
    /\ Len(keys) < MaxKeys
    /\ nextUuid <= MaxUuid
    /\ \E uid \in UserIds :
         keys' = Append([k \in KeyIds |->
                           IF keys[k].user_id = uid /\ keys[k].is_active
                           THEN [keys[k] EXCEPT !.is_active = FALSE]
                           ELSE keys[k]],
                        UserKey(uid, nextUuid))
    /\ nextUuid' = nextUuid + 1
    /\ Touch
    /\ UNCHANGED <<users, xray, procs, inflight, last_sync, life, now, subs, cs,
                   daemon, obs, boot>>

\* (variant for C26: only an active key is matched by the update)
revoke_key_update_active_only(ks, key_id) ==
    LET matched == {k \in DOMAIN ks : k = key_id /\ ks[k].is_active}
    IN  [keys |-> [k \in DOMAIN ks |->
                     IF k \in matched THEN [ks[k] EXCEPT !.is_active = FALSE] ELSE ks[k]],
         ret |-> Cardinality(matched) > 0]

\* db.query(UserKey).filter(UserKey.id == key_id).update({is_active: False});
\* commit; return result > 0, result being the number of rows matched.
revoke_key_update(ks, key_id) ==
    LET matched == {k \in DOMAIN ks : k = key_id}
    IN  [keys |-> [k \in DOMAIN ks |->
                     IF k \in matched THEN [ks[k] EXCEPT !.is_active = FALSE] ELSE ks[k]],
         ret |-> Cardinality(matched) > 0]

\* Database.revoke_key(key_id).  obs keeps the store before the call, the
\* store and the result after it (once), and what the same call gives when
\* it is made again right after it (twice).
revoke_key ==
    /\ LoopFree
    /\ \E key_id \in 1..MaxKeys :
         LET once == revoke_key_update(keys, key_id)
             twice == revoke_key_update(once.keys, key_id)
         IN  /\ keys' = once.keys
             /\ obs' = [op |-> "revoke_key", key_id |-> key_id, before |-> keys,
                         once |-> once, twice |-> twice]
    /\ TouchIf(keys' # keys)
    /\ UNCHANGED <<users, xray, nextUuid, procs, inflight, last_sync, life, now, subs, cs,
                   daemon, boot>>

\* Database.update_user_traffic(user_id, used_bytes): the first active key of
\* the user gets used_bytes; no key: return False.
update_user_traffic ==
    /\ LoopFree
    /\ \E uid \in UserIds, used_bytes \in 0..MaxBytes :
         keys' = IF ActiveKeyIds(uid) = {} THEN keys
                 ELSE [keys EXCEPT ![Min(ActiveKeyIds(uid))].used_bytes = used_bytes]
    /\ TouchIf(keys' # keys)
    /\ UNCHANGED <<users, xray, nextUuid, procs, inflight, last_sync, life, now, subs, cs,
                   daemon, obs, boot>>

\* datetime.now() moves on
tick ==
    /\ now < MaxNow
    /\ now' = now + 1
    /\ UNCHANGED <<users, keys, xray, nextUuid, procs, fs, inflight, last_sync, life,
                   subs, cs,
                   daemon, obs, boot>>

\* ---------------------------------------------------------------- membership
MemberOutcomes == {"member", "administrator", "creator", "left", "kicked", "error"}

\* (variant for C14: a failed query counts as a member)
check_subscription_fail_open(outcome) ==
    outcome \in {"member", "administrator", "creator", "error"}

\* bot.check_subscription: an exception of get_chat_member gives False.
check_subscription(outcome) ==
    IF outcome = "error" THEN FALSE
    ELSE outcome \in {"member", "administrator", "creator"}

\* ---------------------------------------------------------------- /start
\* cmd_start: select the User row by telegram_id; when there is one the handler
\* changes nothing.
cmd_start_select(p) ==
    /\ LoopFree
    /\ FreeSlot(p)
    /\ \E tg \in PlatformIds :
         procs' = IF get_user(tg) # 0 THEN procs
                  ELSE [procs EXCEPT ![p] = [Idle EXCEPT !.pc = "st_commit", !.tg = tg]]
    /\ UNCHANGED <<users, keys, xray, nextUuid, fs, inflight, last_sync, life, now, subs, cs,
                   daemon, obs, boot>>

\* (variant for C27: telegram_id is not unique)
insert_user_not_unique(tg) == Append(users, tg)

\* INSERT INTO users: telegram_id is unique, a second row with the same
\* telegram_id is refused by the store (IntegrityError).
insert_user(tg) == IF UserRowsOf(tg) = {} THEN Append(users, tg) ELSE users

\* session.add(db_user); commit.  A refused insert ends the handler with the
\* error.
cmd_start_commit(p) ==
    /\ LoopFree
    /\ procs[p].pc = "st_commit"
    /\ users' = insert_user(procs[p].tg)
    /\ procs' = [procs EXCEPT ![p] = Idle]
    /\ TouchIf(users' # users)
    /\ UNCHANGED <<keys, xray, nextUuid, inflight, last_sync, life, now, subs, cs,
                   daemon, obs, boot>>

\* get_or_create_user: get_user; a row: it is returned.  obs keeps the
\* telegram_id, whether the row was there at the select, whether the call
\* ended with an exception, the id of the row returned (0: none) and the
\* number of rows of the telegram_id after the call.
get_or_create_user_select(p) ==
    /\ LoopFree
    /\ FreeSlot(p)
    /\ \E tg \in PlatformIds :
         IF get_user(tg) # 0
         THEN /\ obs' = [op |-> "get_or_create_user", tg |-> tg, existed |-> TRUE,
                         failed |-> FALSE, ret |-> get_user(tg),
                         rows |-> Cardinality(UserRowsOf(tg))]
              /\ UNCHANGED procs
         ELSE /\ procs' = [procs EXCEPT ![p] = [Idle EXCEPT !.pc = "gu_commit", !.tg = tg]]
              /\ UNCHANGED obs
    /\ UNCHANGED <<users, keys, xray, nextUuid, fs, inflight, last_sync, life, now, subs, cs,
                   daemon, boot>>

\* create_user: session.add(user); commit; refresh.  The exception of a
\* refused insert is not caught.
get_or_create_user_commit(p) ==
    /\ LoopFree
    /\ procs[p].pc = "gu_commit"
    /\ LET tg == procs[p].tg
       IN  /\ users' = insert_user(tg)
           /\ obs' = [op |-> "get_or_create_user", tg |-> tg, existed |-> FALSE,
                      failed |-> (users' = users),
                      ret |-> IF users' = users THEN 0 ELSE Len(users'),
                      rows |-> Cardinality({i \in 1..Len(users') : users'[i] = tg})]
    /\ procs' = [procs EXCEPT ![p] = Idle]
    /\ TouchIf(users' # users)
    /\ UNCHANGED <<keys, xray, nextUuid, inflight, last_sync, life, now, subs, cs, daemon, boot>>

\* ---------------------------------------------------------------- create handler
\* check_subscription_callback up to the membership answer: not subscribed,
\* callback.answer(...) is awaited and the handler returns.
check_subscription_callback_begin(p) ==
    /\ LoopFree
    /\ FreeSlot(p)
    /\ \E tg \in PlatformIds, outcome \in MemberOutcomes :
         procs' = [procs EXCEPT ![p] =
                     [Idle EXCEPT !.pc = IF check_subscription(outcome)
                                         THEN "cs_user" ELSE "cs_denied",
                                  !.tg = tg, !.qerr = (outcome = "error")]]
    /\ UNCHANGED <<users, keys, xray, nextUuid, fs, inflight, last_sync, life, now, subs, cs,
                   daemon, obs, boot>>

\* the answer "not subscribed" is sent; the handler is over.
check_subscription_callback_denied(p) ==
    /\ inflight = {}
    /\ procs[p].pc = "cs_denied"
    /\ procs' = [procs EXCEPT ![p] = Idle]
    /\ UNCHANGED <<users, keys, xray, nextUuid, fs, inflight, last_sync, life, now, subs, cs,
                   daemon, obs, boot>>

\* select(User).where(User.telegram_id == user.id)
check_subscription_callback_user(p) ==
    /\ LoopFree
    /\ procs[p].pc = "cs_user"
    /\ procs' = IF get_user(procs[p].tg) = 0
                THEN [procs EXCEPT ![p] = Idle]
                ELSE [procs EXCEPT ![p].pc = "cs_key", ![p].uid = get_user(procs[p].tg)]
    /\ UNCHANGED <<users, keys, xray, nextUuid, fs, inflight, last_sync, life, now, subs, cs,
                   daemon, obs, boot>>

\* select the active key (scalar_one_or_none: more than one row raises, and
\* the handler's except ends it); without a key: uuid4 and add_vless_user under
\* f"user_{user.id}@xray.com", where user is callback.from_user.
check_subscription_callback_key(p) ==
    /\ LoopFree
    /\ procs[p].pc = "cs_key"
    /\ IF ActiveKeyIds(procs[p].uid) # {}
       THEN /\ procs' = [procs EXCEPT ![p] = Idle]
            /\ UNCHANGED <<nextUuid, inflight>>
       ELSE /\ nextUuid <= MaxUuid
            /\ procs' = [procs EXCEPT ![p].pc = "cs_add", ![p].uuid = nextUuid]
            /\ nextUuid' = nextUuid + 1
            /\ inflight' = add_vless_user(p, Email(procs[p].tg), nextUuid, procs[p].uid)
    /\ UNCHANGED <<users, keys, xray, fs, last_sync, life, now, subs, cs,
                   daemon, obs, boot>>

\* (variant for C35: the key is added to the session whatever add_vless_user
\* returned)
check_subscription_callback_added_unchecked(p) ==
    /\ procs[p].pc = "cs_add"
    /\ Waiting(p, "add")
    /\ \E ok \in BOOLEAN :
         /\ xray' = add_user(xray, CallOf(p).email, CallOf(p).uuid, ok)
         /\ procs' = [procs EXCEPT ![p].pc = "cs_commit", ![p].ret = ok]
    /\ inflight' = Returned(p)
    /\ TouchIf(xray' # xray)
    /\ UNCHANGED <<users, keys, nextUuid, last_sync, life, now, subs, cs,
                   daemon, obs, boot>>

\* add_vless_user returns; False: answer and return; True: session.add(key)
\* and the commit is awaited.
check_subscription_callback_added(p) ==
    /\ procs[p].pc = "cs_add"
    /\ Waiting(p, "add")
    /\ \E ok \in BOOLEAN :
         /\ xray' = add_user(xray, CallOf(p).email, CallOf(p).uuid, ok)
         /\ procs' = IF ok THEN [procs EXCEPT ![p].pc = "cs_commit", ![p].ret = TRUE]
                          ELSE [procs EXCEPT ![p] = Idle]
    /\ inflight' = Returned(p)
    /\ TouchIf(xray' # xray)
    /\ UNCHANGED <<users, keys, nextUuid, last_sync, life, now, subs, cs,
                   daemon, obs, boot>>

\* the commit inserts UserKey(user_id = db_user.id, uuid = user_uuid, is_active).
check_subscription_callback_commit(p) ==
    /\ LoopFree
    /\ procs[p].pc = "cs_commit"
    /\ Len(keys) < MaxKeys
    /\ keys' = Append(keys, UserKey(procs[p].uid, procs[p].uuid))
    /\ procs' = [procs EXCEPT ![p] = Idle]
    /\ life' = [life EXCEPT ![procs[p].tg] = 1]
    /\ Touch
    /\ UNCHANGED <<users, xray, nextUuid, inflight, last_sync, now, subs, cs,
                   daemon, obs, boot>>

\* ---------------------------------------------------------------- renew handler
\* the daemon x holds, under the tag of the User row uid, the uuid of every
\* active key ks has for that user
Accepted(ks, x, uid) ==
    \A k \in DOMAIN ks :
        (ks[k].user_id = uid /\ ks[k].is_active)
            => [email |-> Email(uid), uuid |-> ks[k].uuid] \in x

\* renew_callback: the key id is read from the callback data renew_<id>;
\* select the key by id with is_active; none: answer and return.  The sender
\* of the callback (callback.from_user) is not read.
renew_callback_key_id(p, key_id) ==
    /\ LoopFree
    /\ FreeSlot(p)
    /\ procs' = IF key_id \in KeyIds /\ keys[key_id].is_active
                THEN [procs EXCEPT ![p] = [Idle EXCEPT !.pc = "rn_user", !.key = key_id,
                                                !.uid = keys[key_id].user_id]]
                ELSE procs
    /\ UNCHANGED <<users, keys, xray, nextUuid, fs, inflight, last_sync, life, now, subs, cs,
                   daemon, boot>>

renew_callback_key(p) ==
    /\ \E key_id \in 1..MaxKeys : renew_callback_key_id(p, key_id)
    /\ UNCHANGED obs

\* The same step with the request on record: obs keeps the sender of the
\* callback (callback.from_user.id) and the key id of its data; began_ok is
\* written when the handler issues its Remove.
renew_callback_from_user(p) ==
    \E key_id \in 1..MaxKeys, from_user \in PlatformIds :
        /\ renew_callback_key_id(p, key_id)
        /\ obs' = [op |-> "renew_callback", from_user |-> from_user, key_id |-> key_id,
                   began_ok |-> FALSE]

\* select the User by key.user_id, then remove_vless_user under
\* f"user_{user.id}@xray.com", where user is the User row.  (new_uuid, a uuid4
\* that depends on nothing, is drawn here.)
renew_callback_remove(p) ==
    /\ LoopFree
    /\ procs[p].pc = "rn_user"
    /\ IF procs[p].uid \notin UserIds
       THEN /\ procs' = [procs EXCEPT ![p] = Idle]
            /\ UNCHANGED <<nextUuid, inflight>>
       ELSE /\ nextUuid <= MaxUuid
            /\ procs' = [procs EXCEPT ![p].pc = "rn_remove", ![p].uuid = nextUuid,
                           ![p].tg = users[procs[p].uid],
                           ![p].hist = <<Ev("call", "remove", Email(procs[p].uid), TRUE)>>]
            /\ nextUuid' = nextUuid + 1
            /\ inflight' = remove_vless_user(p, Email(procs[p].uid), procs[p].uid)
    /\ UNCHANGED <<users, keys, xray, fs, last_sync, life, now, subs, cs, daemon, boot>>

\* The same step with the request on record: began_ok = when the handler
\* issued its Remove, the daemon held the identity of every active key of the
\* user (history variable).
renew_callback_began(p) ==
    /\ renew_callback_remove(p)
    /\ obs' = [op |-> "renew_callback", from_user |-> obs.from_user,
               key_id |-> obs.key_id,
               began_ok |-> Accepted(keys, xray, procs[p].uid)]

\* (variant for C8: the new identity is added before the old one is removed)
renew_callback_user_add_first(p) ==
    /\ LoopFree
    /\ procs[p].pc = "rn_user"
    /\ procs[p].uid \in UserIds
    /\ nextUuid <= MaxUuid
    /\ procs' = [procs EXCEPT ![p].pc = "rn_add", ![p].uuid = nextUuid,
                   ![p].tg = users[procs[p].uid],
                   ![p].hist = <<Ev("call", "add", Email(procs[p].uid), TRUE)>>]
    /\ nextUuid' = nextUuid + 1
    /\ inflight' = add_vless_user(p, Email(procs[p].uid), nextUuid, procs[p].uid)
    /\ UNCHANGED <<users, keys, xray, fs, last_sync, life, now, subs, cs,
                   daemon, obs, boot>>

renew_callback_user(p) ==
    /\ renew_callback_remove(p)
    /\ UNCHANGED obs

\* remove_vless_user returns (its result is not looked at), then
\* add_vless_user(same tag, new_uuid) with no await in between.
renew_callback_removed(p) ==
    /\ procs[p].pc = "rn_remove"
    /\ Waiting(p, "remove")
    /\ \E ok \in BOOLEAN :
         /\ xray' = remove_user(xray, CallOf(p).email, ok)
         /\ procs' = [procs EXCEPT ![p].pc = "rn_add",
                        ![p].hist = procs[p].hist \o
                                    <<Ev("ret", "remove", CallOf(p).email, ok),
                                      Ev("call", "add", Email(procs[p].uid), TRUE)>>]
    /\ inflight' = Returned(p) \cup
                   {Call(p, "add", Email(procs[p].uid), procs[p].uuid, procs[p].uid)}
    /\ TouchIf(xray' # xray)
    /\ UNCHANGED <<users, keys, nextUuid, last_sync, life, now, subs, cs,
                   daemon, obs, boot>>

\* add_vless_user returns; False: answer and return; True: the key object
\* gets the new uuid and the commit is awaited.
renew_callback_added(p) ==
    /\ procs[p].pc = "rn_add"
    /\ Waiting(p, "add")
    /\ \E ok \in BOOLEAN :
         /\ xray' = add_user(xray, CallOf(p).email, CallOf(p).uuid, ok)
         /\ procs' = IF ok
                     THEN [procs EXCEPT ![p].pc = "rn_commit", ![p].ret = TRUE,
                             ![p].hist = procs[p].hist \o
                                         <<Ev("ret", "add", CallOf(p).email, ok)>>]
                     ELSE [procs EXCEPT ![p] = Idle]
    /\ inflight' = Returned(p)
    /\ TouchIf(xray' # xray)
    /\ UNCHANGED <<users, keys, nextUuid, last_sync, life, now, subs, cs,
                   daemon, obs, boot>>

\* the commit writes key.uuid = new_uuid, expires_at = now + 30 days and
\* used_bytes = 0 to the row of that key id.
renew_callback_commit(p) ==
    /\ LoopFree
    /\ procs[p].pc = "rn_commit"
    /\ keys' = [keys EXCEPT ![procs[p].key].uuid = procs[p].uuid,
                           ![procs[p].key].expires_at = now + days_valid,
                           ![procs[p].key].used_bytes = 0]
    /\ procs' = [procs EXCEPT ![p] = Idle]
    /\ life' = [life EXCEPT ![procs[p].tg] =
                                 IF @ = 1 /\ procs[p].hist[2][4] THEN 2 ELSE 0]
    /\ Touch
    /\ UNCHANGED <<users, xray, nextUuid, inflight, last_sync, now, subs, cs,
                   daemon, obs, boot>>

\* ---------------------------------------------------------------- per-identity sync
Actions == {"create", "renew", "delete"}

\* the answers of the daemon to a call: return code 0 ("ok"), or an error: the
\* identity is already there / is not there, the request is refused, the
\* daemon cannot be reached.
Outcomes(x, op, email) ==
    {"ok", "rejected", "unreachable"}
        \cup (IF op = "add" /\ email \in {r.email : r \in x} THEN {"exists"} ELSE {})
        \cup (IF op = "remove" /\ email \notin {r.email : r \in x} THEN {"missing"} ELSE {})

\* result.returncode == 0
returncode_ok(outcome) == outcome = "ok"

\* (variant for C11: the active key is never found)
active_key_none(user_keys) == 0

\* next((k for k in user_keys if k.is_active), None); 0 stands for None
active_key(user_keys) == IF user_keys = {} THEN 0 ELSE Min(user_keys)

\* (variant for C30: the wrapper returns what the sync returned)
wrapper_result_of_sync(result, success) == IF success THEN "True" ELSE "False"

\* return result
wrapper_result(result, success) == result

\* the wrapper of sync_on_action(action_type) is called with an update:
\* result = await func(*args, **kwargs).  The wrapped handler is any coroutine.
sync_on_action_begin(p) ==
    /\ LoopFree
    /\ FreeSlot(p)
    /\ procs' = [procs EXCEPT ![p] = [Idle EXCEPT !.pc = "so_body", !.body = "running"]]
    /\ UNCHANGED <<users, keys, xray, nextUuid, fs, inflight, last_sync, life, now, subs, cs,
                   daemon, obs, boot>>

BodyOutcomes == {"returned", "raised"}

\* The wrapped handler is over.  It raised: the exception leaves the wrapper.
\* It returned: the wrapper reads from_user.id of the update (tg; 0: there is
\* none, the wrapper returns the result) and calls
\* sync_user_on_action(user_id, action) with the platform id: select the User
\* by telegram_id; none: return False (and the wrapper logs "Sync completed").
sync_user_on_action_user(p) ==
    /\ LoopFree
    /\ procs[p].pc = "so_body"
    /\ \E outcome \in BodyOutcomes, tg \in PlatformIds \cup {0}, action \in Actions :
         LET returned == [procs[p] EXCEPT !.body = "returned", !.result = "result"]
             called == [returned EXCEPT !.tg = tg, !.action = action, !.syncs = 1]
         IN  procs' =
               IF outcome = "raised"
               THEN [procs EXCEPT ![p] = [Idle EXCEPT !.pc = "so_raised", !.body = "raised"]]
               ELSE IF tg = 0
               THEN [procs EXCEPT ![p] = [returned EXCEPT
                                            !.pc = "so_ret",
                                            !.returned = wrapper_result("result", FALSE)]]
               ELSE IF get_user(tg) = 0
               THEN [procs EXCEPT ![p] = [called EXCEPT !.pc = "su_ret", !.ret = FALSE,
                                                       !.log = "completed"]]
               ELSE [procs EXCEPT ![p] = [called EXCEPT !.pc = "su_keys",
                                                       !.uid = get_user(tg)]]
    /\ UNCHANGED <<users, keys, xray, nextUuid, fs, inflight, last_sync, life, now, subs, cs,
                   daemon, obs, boot>>

\* select the user's active keys; email = f"user_{user.id}@xray.com"; then
\* _ensure_user_exists / _renew_user_key / _remove_user up to its first call.
sync_user_on_action_keys(p) ==
    /\ LoopFree
    /\ procs[p].pc = "su_keys"
    /\ LET user_keys == ActiveKeyIds(procs[p].uid)
           key == active_key(user_keys)
           uuid == IF key = 0 THEN 0 ELSE keys[key].uuid
           email == Email(procs[p].uid)
       IN  CASE procs[p].action = "create" /\ key = 0 ->
                  /\ procs' = [procs EXCEPT ![p].pc = "su_ret", ![p].ret = FALSE,
                                 ![p].log = "completed"]
                  /\ UNCHANGED inflight
             [] procs[p].action = "create" /\ key # 0 ->
                  /\ procs' = [procs EXCEPT ![p].pc = "su_add", ![p].key = key,
                                 ![p].uuid = uuid,
                                 ![p].hist = <<Ev("call", "add", email, TRUE)>>]
                  /\ inflight' = add_vless_user(p, email, uuid, procs[p].uid)
             [] procs[p].action = "renew" ->
                  /\ procs' = [procs EXCEPT ![p].pc = "su_remove", ![p].key = key,
                                 ![p].uuid = uuid,
                                 ![p].hist = <<Ev("call", "remove", email, TRUE)>>]
                  /\ inflight' = remove_vless_user(p, email, procs[p].uid)
             [] procs[p].action = "delete" ->
                  /\ procs' = [procs EXCEPT ![p].pc = "su_delete",
                                 ![p].hist = <<Ev("call", "remove", email, TRUE)>>]
                  /\ inflight' = remove_vless_user(p, email, procs[p].uid)
    /\ UNCHANGED <<users, keys, xray, nextUuid, fs, last_sync, life, now, subs, cs,
                   daemon, obs, boot>>

\* _renew_user_key: remove_vless_user returns (result not looked at); with an
\* active key add_vless_user(email, active_key.uuid), else return False.
sync_user_on_action_removed(p) ==
    /\ procs[p].pc = "su_remove"
    /\ Waiting(p, "remove")
    /\ \E ok \in BOOLEAN :
         /\ xray' = remove_user(xray, CallOf(p).email, ok)
         /\ procs' = IF procs[p].key # 0
                     THEN [procs EXCEPT ![p].pc = "su_add",
                             ![p].hist = procs[p].hist \o
                                         <<Ev("ret", "remove", CallOf(p).email, ok),
                                           Ev("call", "add", Email(procs[p].uid), TRUE)>>]
                     ELSE [procs EXCEPT ![p].pc = "su_ret", ![p].ret = FALSE,
                             ![p].log = "completed",
                             ![p].hist = procs[p].hist \o
                                         <<Ev("ret", "remove", CallOf(p).email, ok)>>]
    /\ IF procs[p].key # 0
       THEN inflight' = Returned(p) \cup
                        {Call(p, "add", Email(procs[p].uid), procs[p].uuid, procs[p].uid)}
       ELSE inflight' = Returned(p)
    /\ TouchIf(xray' # xray)
    /\ UNCHANGED <<users, keys, nextUuid, last_sync, life, now, subs, cs,
                   daemon, obs, boot>>

\* _ensure_user_exists / _renew_user_key: add_vless_user returns, and its
\* result is the result of the sync.
sync_user_on_action_added(p) ==
    /\ procs[p].pc = "su_add"
    /\ Waiting(p, "add")
    /\ \E ok \in BOOLEAN :
         /\ xray' = add_user(xray, CallOf(p).email, CallOf(p).uuid, ok)
         /\ procs' = [procs EXCEPT ![p].pc = "su_ret", ![p].ret = ok,
                        ![p].log = "completed",
                        ![p].hist = procs[p].hist \o
                                    <<Ev("ret", "add", CallOf(p).email, ok)>>]
    /\ inflight' = Returned(p)
    /\ TouchIf(xray' # xray)
    /\ UNCHANGED <<users, keys, nextUuid, last_sync, life, now, subs, cs,
                   daemon, obs, boot>>

\* _remove_user: remove_vless_user returns, and its result is the result of
\* the sync.  The store is not written.
sync_user_on_action_deleted(p) ==
    /\ procs[p].pc = "su_delete"
    /\ Waiting(p, "remove")
    /\ \E outcome \in Outcomes(xray, "remove", CallOf(p).email) :
         LET ok == returncode_ok(outcome)
         IN  /\ xray' = remove_user(xray, CallOf(p).email, ok)
             /\ life' = [life EXCEPT ![procs[p].tg] = IF ok /\ @ = 2 THEN 3 ELSE @]
             /\ procs' = [procs EXCEPT ![p].pc = "su_ret", ![p].ret = ok,
                            ![p].log = "completed", ![p].out = outcome,
                            ![p].hist = procs[p].hist \o
                                        <<Ev("ret", "remove", CallOf(p).email, ok)>>]
    /\ inflight' = Returned(p)
    /\ TouchIf(xray' # xray)
    /\ UNCHANGED <<users, keys, nextUuid, last_sync, now, subs, cs,
                   daemon, obs, boot>>

\* sync_on_action's wrapper: sync_user_on_action has returned without raising,
\* its result is dropped, "Sync completed" is logged and the wrapper returns
\* the result of the handler.
sync_on_action(p) ==
    /\ inflight = {}
    /\ procs[p].pc = "su_ret"
    /\ procs' = [procs EXCEPT ![p].pc = "so_ret",
                              ![p].returned = wrapper_result(procs[p].result, procs[p].ret)]
    /\ UNCHANGED <<users, keys, xray, nextUuid, fs, inflight, last_sync, life, now, subs, cs,
                   daemon, obs, boot>>

\* the dispatcher has the wrapper's result, or its exception
sync_on_action_end(p) ==
    /\ inflight = {}
    /\ procs[p].pc \in {"so_ret", "so_raised"}
    /\ procs' = [procs EXCEPT ![p] = Idle]
    /\ UNCHANGED <<users, keys, xray, nextUuid, fs, inflight, last_sync, life, now, subs, cs,
                   daemon, obs, boot>>

\* ---------------------------------------------------------------- full reconciliation
\* (variant for C24: the daemon's identities are listed)
get_xray_users_listed == XrayEmails

\* XrayUserSyncService._get_xray_users: "For now, return empty set".
get_xray_users == {}

\* select(User).join(UserKey).where(UserKey.is_active == True): one User per
\* joined row, here in the order of the key rows.
RECURSIVE JoinedUsers(_)
JoinedUsers(k) ==
    IF k > Len(keys) THEN <<>>
    ELSE IF keys[k].is_active /\ keys[k].user_id \in UserIds
         THEN <<keys[k].user_id>> \o JoinedUsers(k + 1)
         ELSE JoinedUsers(k + 1)

\* {key.user_id: key for key in active keys}: a later row replaces an earlier
\* one of the same user.  The value kept here is the key's uuid.
ActiveKeysByUser ==
    [u \in {keys[k].user_id : k \in AllActiveKeyIds} |->
        keys[Max({k \in AllActiveKeyIds : keys[k].user_id = u})].uuid]

\* the emails full_sync has put in db_user_emails once the first loop is over
DbUserEmails(f) ==
    {Email(f.db_users[j]) : j \in {j \in 1..Len(f.db_users) :
                                       f.db_users[j] \in DOMAIN f.active_keys}}

\* The loops of full_sync from position `from` of db_users, up to the next
\* daemon call or the end of the pass (no await in between).
FsAdvance(f, from) ==
    LET cand == {j \in from..Len(f.db_users) :
                    /\ f.db_users[j] \in DOMAIN f.active_keys
                    /\ Email(f.db_users[j]) \notin f.xray_users}
        pending == {e \in f.rest : e \notin DbUserEmails(f)}
    IN  IF cand # {}
        THEN LET j == Min(cand)
                 u == f.db_users[j]
             IN  /\ fs' = [f EXCEPT !.pc = "fs_add", !.i = j,
                             !.issued = @ \cup {<<"add", Email(u)>>},
                             !.late = IF f.must_cancel
                                      THEN @ \cup {<<"add", Email(u)>>} ELSE @]
                 /\ inflight' = Returned(FS) \cup
                                {Call(FS, "add", Email(u), f.active_keys[u], u)}
                 /\ UNCHANGED last_sync
        ELSE IF pending # {}
        THEN \E e \in pending :
                 /\ fs' = [f EXCEPT !.pc = "fs_remove", !.i = Len(f.db_users) + 1,
                             !.rest = {x \in f.rest : x # e /\ x \notin DbUserEmails(f)},
                             !.issued = @ \cup {<<"remove", e>>},
                             !.late = IF f.must_cancel
                                      THEN @ \cup {<<"remove", e>>} ELSE @]
                 /\ inflight' = Returned(FS) \cup {Call(FS, "remove", e, 0, 0)}
                 /\ UNCHANGED last_sync
        ELSE /\ fs' = [f EXCEPT !.pc = "done", !.i = 0, !.rest = {}, !.quiet = TRUE]
             /\ inflight' = Returned(FS)
             /\ last_sync' = f.n

\* full_sync, called where the caller is at one of the positions pcs: stats =
\* zeros; the first select.
full_sync_select(pcs) ==
    /\ LoopFree
    /\ fs.pc \in pcs
    /\ fs.n < MaxPasses
    /\ fs' = [FsIdle EXCEPT !.pc = "fs_keys", !.n = fs.n + 1,
                !.db_users = JoinedUsers(1),
                !.clean = TRUE,
                !.second = (fs.pc = "done" /\ fs.clean /\ fs.quiet),
                !.D0 = {Email(keys[k].user_id) : k \in AllActiveKeyIds},
                !.X0 = {k \in AllActiveKeyIds : is_expired(keys[k]) \/ ~has_data(keys[k])},
                !.O0 = XrayEmails]
    /\ UNCHANGED <<users, keys, xray, nextUuid, procs, inflight, last_sync, life, now, subs, cs,
                   daemon, obs, boot>>

\* full_sync called by itself: no pass is running
full_sync_users == full_sync_select({"idle", "done", "failed"})

\* Task.cancel() on the task of the pass, called by another callback of the
\* loop: the pass is suspended at an await (the loops have none, and a call
\* blocks the loop).
cancel ==
    /\ LoopFree
    /\ fs.pc = "fs_keys"
    /\ ~fs.must_cancel
    /\ fs' = [fs EXCEPT !.must_cancel = TRUE]
    /\ UNCHANGED <<users, keys, xray, nextUuid, procs, inflight, last_sync, life, now,
                   subs, cs, daemon, obs, boot>>

\* (variant for C25: the request is not delivered to the pass)
CancelledError_ignored(f) == FALSE

\* the await the pass is suspended at raises CancelledError when the task has
\* been cancelled
CancelledError_raised(f) == f.must_cancel

\* the second select, _get_xray_users, and the loops up to the first call.
\* CancelledError is no Exception: it leaves full_sync and the loop of
\* start_periodic_sync, and the task is over.
full_sync_keys ==
    /\ LoopFree
    /\ fs.pc = "fs_keys"
    /\ IF CancelledError_raised(fs)
       THEN /\ fs' = [fs EXCEPT !.pc = "cancelled"]
            /\ UNCHANGED <<inflight, last_sync>>
       ELSE FsAdvance([fs EXCEPT !.active_keys = ActiveKeysByUser,
                                 !.xray_users = get_xray_users,
                                 !.rest = get_xray_users], 1)
    /\ UNCHANGED <<users, keys, xray, nextUuid, procs, life, now, subs, cs,
                   daemon, obs, boot>>

\* (variant for C36: the except clause only logs)
except_Exception_logged(stats) == stats

\* except Exception as e: logger.error(...); stats['errors'] += 1 (and then
\* return stats: the pass is over, pc "failed")
except_Exception(stats) == [stats EXCEPT !.errors = @ + 1]

\* full_sync is called where the caller is at one of the positions pcs, and
\* its first select raises an Exception (the database cannot be reached, the
\* statement fails): stats is still zeros, nothing was read.
full_sync_select_raised(pcs) ==
    /\ LoopFree
    /\ fs.pc \in pcs
    /\ fs.n < MaxPasses
    /\ fs' = [FsIdle EXCEPT !.pc = "failed", !.n = fs.n + 1,
                            !.stats = except_Exception(NoStats)]
    /\ UNCHANGED <<users, keys, xray, nextUuid, procs, inflight, last_sync, life, now, subs, cs,
                   daemon, obs, boot>>

full_sync_users_raised == full_sync_select_raised({"idle", "done", "failed"})

\* the second select raises an Exception (a cancelled task gets its
\* CancelledError at this await instead)
full_sync_keys_raised ==
    /\ LoopFree
    /\ fs.pc = "fs_keys"
    /\ ~CancelledError_raised(fs)
    /\ fs' = [fs EXCEPT !.pc = "failed", !.stats = except_Exception(@)]
    /\ UNCHANGED <<users, keys, xray, nextUuid, procs, inflight, last_sync, life, now, subs, cs,
                   daemon, obs, boot>>

\* ---------------------------------------------------------------- periodic loop
\* start_periodic_sync, `while True: try: await asyncio.sleep(sync_interval);
\* await self.full_sync() except Exception: logger.error(...); await
\* asyncio.sleep(60)`.  fs.pc = "sleep": the loop awaits the sleep of the try;
\* "retry": it awaits the sleep of the except clause.
\* The wait is over: full_sync is called and runs up to its first select.
start_periodic_sync_full_sync == full_sync_select({"sleep"})

\* the same, and the first select of full_sync raises
start_periodic_sync_full_sync_raised == full_sync_select_raised({"sleep"})

\* (variant for C37: there is no except clause, the exception of the wait
\* leaves the loop)
start_periodic_sync_raised == [fs EXCEPT !.pc = "stopped"]

\* except Exception as e: logger.error(...), then asyncio.sleep(60) is awaited
start_periodic_sync_except == [fs EXCEPT !.pc = "retry"]

\* the wait of the try raises an Exception
start_periodic_sync_sleep_raised ==
    /\ LoopFree
    /\ fs.pc = "sleep"
    /\ fs' = start_periodic_sync_except
    /\ UNCHANGED <<users, keys, xray, nextUuid, procs, inflight, last_sync, life, now, subs, cs,
                   daemon, obs, boot>>

\* the sleep of the except clause is over, or full_sync has returned its
\* stats (which the loop drops): the loop goes round and awaits
\* asyncio.sleep(sync_interval)
start_periodic_sync_sleep ==
    /\ LoopFree
    /\ fs.pc \in {"retry", "done", "failed"}
    /\ fs' = [fs EXCEPT !.pc = "sleep"]
    /\ UNCHANGED <<users, keys, xray, nextUuid, procs, inflight, last_sync, life, now, subs, cs,
                   daemon, obs, boot>>

\* ---------------------------------------------------------------- startup
\* what an attempt of setup_bot fails with: init_db, setup_scheduler /
\* scheduler.start, the timeout of bot.get_me, another exception of
\* bot.get_me, dp.start_polling
Failures == {"init_db", "scheduler", "timeout", "api_error", "polling"}

\* (variant for C38: the except clause waits and retries whatever the attempt)
setup_bot_except_retry(b, e) == [b EXCEPT !.pc = "sleep", !.fails = Append(@, e)]

\* except Exception as e: logger.error(...); attempt < max_retries - 1:
\* asyncio.sleep(retry_delay) is awaited; else: raise.  (The two except
\* clauses around bot.get_me do the same: before the last attempt they sleep
\* and continue, on the last attempt they raise into this clause.)
setup_bot_except(b, e) ==
    [b EXCEPT !.pc = IF b.attempt < max_retries - 1 THEN "sleep" ELSE "raised",
              !.fails = Append(@, e)]

\* init_db() returns or raises; then setup_scheduler() and, unless
\* scheduler.running, scheduler.start(); then bot.get_me() is awaited with
\* its timeout.
setup_bot_init_db ==
    /\ boot.pc = "init_db"
    /\ \E outcome \in {"ok", "init_db", "scheduler"} :
         boot' = IF outcome = "ok"
                 THEN [boot EXCEPT !.pc = "get_me", !.running = TRUE]
                 ELSE setup_bot_except(boot, outcome)
    /\ UNCHANGED <<users, keys, xray, nextUuid, procs, fs, inflight, last_sync, life, now,
                   subs, cs, daemon, obs>>

\* bot.get_me() answers, times out or raises; answered: dp.start_polling is
\* awaited.
setup_bot_get_me ==
    /\ boot.pc = "get_me"
    /\ \E outcome \in {"ok", "timeout", "api_error"} :
         boot' = IF outcome = "ok"
                 THEN [boot EXCEPT !.pc = "polling"]
                 ELSE setup_bot_except(boot, outcome)
    /\ UNCHANGED <<users, keys, xray, nextUuid, procs, fs, inflight, last_sync, life, now,
                   subs, cs, daemon, obs>>

\* dp.start_polling returns (the bot was stopped): break, and setup_bot
\* returns; or it raises.
setup_bot_start_polling ==
    /\ boot.pc = "polling"
    /\ \E outcome \in {"returned", "polling"} :
         boot' = IF outcome = "returned"
                 THEN [boot EXCEPT !.pc = "returned"]
                 ELSE setup_bot_except(boot, outcome)
    /\ UNCHANGED <<users, keys, xray, nextUuid, procs, fs, inflight, last_sync, life, now,
                   subs, cs, daemon, obs>>

\* asyncio.sleep(retry_delay) is over: the next value of range(max_retries),
\* or, with the range used up, the end of the for loop and of setup_bot.
setup_bot_sleep ==
    /\ boot.pc = "sleep"
    /\ boot' = IF boot.attempt + 1 < max_retries
               THEN [boot EXCEPT !.pc = "init_db", !.attempt = @ + 1]
               ELSE [boot EXCEPT !.pc = "returned"]
    /\ UNCHANGED <<users, keys, xray, nextUuid, procs, fs, inflight, last_sync, life, now,
                   subs, cs, daemon, obs>>

\* ---------------------------------------------------------------- membership task
\* Database.update_subscription_status(user_id, is_active): the user's
\* Subscription row is updated, or made when there is none (read as written,
\* with the module's names bound).  The record of a finished membership pass
\* is no longer looked at once the subscriptions change.
update_subscription_status ==
    /\ LoopFree
    /\ \E uid \in UserIds, is_active \in BOOLEAN :
         subs' = [u \in DOMAIN subs \cup {uid} |->
                     IF u = uid THEN is_active ELSE subs[u]]
    /\ cs' = IF cs.pc = "done" /\ subs' # subs THEN CsIdle ELSE cs
    /\ UNCHANGED <<users, keys, xray, nextUuid, procs, fs, inflight, last_sync, life, now,
                   daemon, obs, boot>>

\* select(Subscription, User).join(...).where(Subscription.is_active == True),
\* here in the order of the user ids
RECURSIVE ActiveSubscriptions(_)
ActiveSubscriptions(u) ==
    IF u > Len(users) THEN <<>>
    ELSE IF u \in DOMAIN subs /\ subs[u]
         THEN <<u>> \o ActiveSubscriptions(u + 1)
         ELSE ActiveSubscriptions(u + 1)

\* check_subscriptions: the select; then check_subscription of the first row
\* is awaited, or, without rows, the commit.
check_subscriptions_select ==
    /\ LoopFree
    /\ cs.pc \in {"idle", "done"}
    /\ cs' = [CsIdle EXCEPT !.pc = IF ActiveSubscriptions(1) = <<>>
                                  THEN "commit" ELSE "member",
                           !.rows = ActiveSubscriptions(1), !.i = 1]
    /\ UNCHANGED <<users, keys, xray, nextUuid, procs, fs, inflight, last_sync, life,
                   now, subs,
                   daemon, obs, boot>>

\* the membership answer for row i: not subscribed, subscription.is_active =
\* False in the session (and the notice is sent); then the next row, or the
\* commit.
check_subscriptions_member ==
    /\ LoopFree
    /\ cs.pc = "member"
    /\ \E outcome \in MemberOutcomes :
         LET u == cs.rows[cs.i]
             is_subscribed == check_subscription(outcome)
         IN  cs' = [cs EXCEPT
                      !.pc = IF cs.i = Len(cs.rows) THEN "commit" ELSE "member",
                      !.i = cs.i + 1,
                      !.dirty = IF is_subscribed THEN @ ELSE @ \cup {u},
                      !.lapsed = IF outcome \in {"left", "kicked"} THEN @ \cup {u} ELSE @,
                      !.errored = IF outcome = "error" THEN @ \cup {u} ELSE @]
    /\ UNCHANGED <<users, keys, xray, nextUuid, procs, fs, inflight, last_sync, life,
                   now, subs,
                   daemon, obs, boot>>

\* session.commit() writes the subscriptions set inactive; then
\* server_manager.restart_xray() is called (systemctl restart, blocking).
check_subscriptions_commit ==
    /\ LoopFree
    /\ cs.pc = "commit"
    /\ subs' = [u \in DOMAIN subs |-> IF u \in cs.dirty THEN FALSE ELSE subs[u]]
    /\ cs' = [cs EXCEPT !.pc = "restart", !.calls = @ \cup {<<"restart", <<>>>>}]
    /\ inflight' = inflight \cup {Call(CS, "restart", <<>>, 0, 0)}
    /\ UNCHANGED <<users, keys, xray, nextUuid, procs, fs, last_sync, life, now,
                   daemon, obs, boot>>

\* restart_xray returns.  The daemon starts again from its configuration
\* file: the identities added through its API are still there or are gone,
\* the code does not say which.
check_subscriptions_restarted ==
    /\ cs.pc = "restart"
    /\ \E c \in inflight :
         /\ c.proc = CS
         /\ inflight' = inflight \ {c}
    /\ \E kept \in BOOLEAN : xray' = IF kept THEN xray ELSE {}
    /\ \E ok \in BOOLEAN :
         daemon' = [daemon EXCEPT !.running = IF ok /\ daemon.installed THEN TRUE ELSE @]
    /\ cs' = [cs EXCEPT !.pc = "done"]
    /\ TouchIf(xray' # xray)
    /\ UNCHANGED <<users, keys, nextUuid, procs, last_sync, life, now, subs, obs, boot>>

\* (variant for C10: a refused call ends the loop)
ResumeAtAbort(op, ok, i, len) == IF op = "add" /\ ok THEN i + 1 ELSE len + 1

\* where the loops go on once the call at position i has returned: a failure
\* is counted and the loop carries on with the next user.
ResumeAt(op, ok, i, len) == IF op = "add" THEN i + 1 ELSE len + 1

\* a call of the pass returns: success counts in 'added' / 'removed', failure
\* in 'errors', and the loops go on.
full_sync_returned ==
    /\ fs.pc \in {"fs_add", "fs_remove"}
    /\ \E c \in inflight :
         /\ c.proc = FS
         /\ \E outcome \in Outcomes(xray, c.op, c.email) :
              LET ok == returncode_ok(outcome)
              IN  /\ xray' = IF c.op = "add" THEN add_user(xray, c.email, c.uuid, ok)
                                             ELSE remove_user(xray, c.email, ok)
                  /\ FsAdvance([fs EXCEPT
                                  !.stats = IF ~ok THEN [@ EXCEPT !.errors = @ + 1]
                                            ELSE IF c.op = "add"
                                            THEN [@ EXCEPT !.added = @ + 1]
                                            ELSE [@ EXCEPT !.removed = @ + 1],
                                  !.failed = IF ok THEN @
                                             ELSE @ \cup {<<fs.i, c.email, outcome,
                                                            c.tries>>}],
                               ResumeAt(c.op, ok, fs.i, Len(fs.db_users)))
    /\ UNCHANGED <<users, keys, nextUuid, procs, life, now, subs, cs,
                   daemon, obs, boot>>

\* The bot process dies and is started again: every coroutine is gone, store
\* and daemon stay as they are; a call in flight may or may not have been
\* carried out.
crash ==
    /\ \/ \E p \in Procs : procs[p].pc # "idle"
       \/ fs.pc \notin {"idle", "done"}
       \/ cs.pc \notin {"idle", "done"}
    /\ \E ok \in BOOLEAN :
         xray' = IF inflight = {} THEN xray
                 ELSE LET c == CHOOSE c \in inflight : TRUE
                      IN  IF c.op = "add" THEN add_user(xray, c.email, c.uuid, ok)
                          ELSE IF c.op = "remove" THEN remove_user(xray, c.email, ok)
                          ELSE xray
    /\ procs' = [p \in Procs |-> Idle]
    /\ fs' = [FsIdle EXCEPT !.n = fs.n]
    /\ inflight' = {}
    /\ last_sync' = 0
    /\ cs' = CsIdle
    /\ UNCHANGED <<users, keys, nextUuid, life, now, subs,
                   daemon, obs, boot>>

\* ---------------------------------------------------------------- specifications
Handler(p) ==
    \/ cmd_start_select(p)
    \/ cmd_start_commit(p)
    \/ check_subscription_callback_begin(p)
    \/ check_subscription_callback_denied(p)
    \/ check_subscription_callback_user(p)
    \/ check_subscription_callback_key(p)
    \/ check_subscription_callback_added(p)
    \/ check_subscription_callback_commit(p)
    \/ renew_callback_key(p)
    \/ renew_callback_user(p)
    \/ renew_callback_removed(p)
    \/ renew_callback_added(p)
    \/ renew_callback_commit(p)
    \/ sync_on_action_begin(p)
    \/ sync_user_on_action_user(p)
    \/ sync_user_on_action_keys(p)
    \/ sync_user_on_action_removed(p)
    \/ sync_user_on_action_added(p)
    \/ sync_user_on_action_deleted(p)
    \/ sync_on_action(p)
    \/ sync_on_action_end(p)

\* ---------------------------------------------------------------- key properties
\* a read of the properties of a UserKey row: obs keeps the row, the clock and
\* the value read.
read_is_expired ==
    /\ LoopFree
    /\ \E k \in KeyIds :
         obs' = [op |-> "is_expired", key |-> keys[k], now |-> now,
                 ret |-> is_expired(keys[k])]
    /\ UNCHANGED <<users, keys, xray, nextUuid, procs, fs, inflight, last_sync, life,
                   now, subs, cs, daemon, boot>>

read_data_remaining ==
    /\ LoopFree
    /\ \E k \in KeyIds :
         obs' = [op |-> "data_remaining", key |-> keys[k], now |-> now,
                 ret |-> data_remaining(keys[k])]
    /\ UNCHANGED <<users, keys, xray, nextUuid, procs, fs, inflight, last_sync, life,
                   now, subs, cs, daemon, boot>>

read_has_data ==
    /\ LoopFree
    /\ \E k \in KeyIds :
         obs' = [op |-> "has_data", key |-> keys[k], now |-> now,
                 ret |-> has_data(keys[k])]
    /\ UNCHANGED <<users, keys, xray, nextUuid, procs, fs, inflight, last_sync, life,
                   now, subs, cs, daemon, boot>>

\* ---------------------------------------------------------------- health check
\* the host changes under the program: the service stops or is started, the
\* binary is removed, installed or replaced by another release.
service_stops ==
    /\ daemon.running
    /\ daemon' = [daemon EXCEPT !.running = FALSE]
    /\ UNCHANGED <<users, keys, xray, nextUuid, procs, fs, inflight, last_sync, life,
                   now, subs, cs, obs, boot>>

service_starts ==
    /\ daemon.installed /\ ~daemon.running
    /\ daemon' = [daemon EXCEPT !.running = TRUE]
    /\ UNCHANGED <<users, keys, xray, nextUuid, procs, fs, inflight, last_sync, life,
                   now, subs, cs, obs, boot>>

binary_changes ==
    /\ ~daemon.running
    /\ \E installed \in BOOLEAN, version \in 1..MaxVersion :
         daemon' = [daemon EXCEPT !.installed = installed, !.version = version]
    /\ daemon' # daemon
    /\ UNCHANGED <<users, keys, xray, nextUuid, procs, fs, inflight, last_sync, life,
                   now, subs, cs, obs, boot>>

\* what subprocess.run can do for each probe of get_xray_status: exit 0, exit
\* non-zero, or raise (the program is not found, the fork fails).
which_xray(d) == IF d.installed THEN {"zero", "raises"} ELSE {"nonzero", "raises"}

xray_version(d) == {"zero", "nonzero", "raises"}

systemctl_is_active(d) == IF d.running THEN {"zero", "raises"} ELSE {"nonzero", "raises"}

\* the probes that were run, in order (a probe after a return is not run)
ProbesRun(which, version, active) ==
    IF which # "zero" THEN <<which>>
    ELSE IF version = "raises" THEN <<which, version>>
    ELSE <<which, version, active>>

\* the status dict get_xray_status starts from; version 0 and error "None"
\* are Python's None.  raised = the call ended with an exception (never set
\* by the code: the whole body is inside try / except Exception).
NoStatus == [installed |-> FALSE, running |-> FALSE, version |-> 0, error |-> "None",
             raised |-> FALSE]

\* (variant for C21: the exception of a probe leaves get_xray_status)
status_reraised(status) == [status EXCEPT !.raised = TRUE]

\* except Exception as e: status['error'] = str(e); return status
status_on_exception(status) == [status EXCEPT !.error = "exception"]

\* XrayManager.get_xray_status (ServerManager.get_xray_status delegates to it)
get_xray_status(d, which, version, active) ==
    IF which = "raises" THEN status_on_exception(NoStatus)
    ELSE IF which = "nonzero" THEN [NoStatus EXCEPT !.error = "Xray is not installed"]
    ELSE IF version = "raises" THEN status_on_exception(NoStatus)
    ELSE LET versioned == IF version = "zero"
                          THEN [NoStatus EXCEPT !.version = d.version, !.installed = TRUE]
                          ELSE NoStatus
         IN  IF active = "raises" THEN status_on_exception(versioned)
             ELSE IF active = "zero" THEN [versioned EXCEPT !.running = TRUE]
             ELSE versioned

\* what check_xray_status logs for a status
Finding(status) ==
    IF status.raised THEN "Error checking Xray status"
    ELSE IF status.error # "None" THEN "Xray status check error"
    ELSE IF ~status.installed THEN "Xray is not installed"
    ELSE IF ~status.running THEN "Xray service is not running"
    ELSE "Xray service is running normally"

\* the job of the scheduler (every 5 minutes): it has no await, it is one
\* step of the loop.  It reads the status and logs; it calls nothing else.
check_xray_status ==
    /\ LoopFree
    /\ \E which \in which_xray(daemon), version \in xray_version(daemon),
          active \in systemctl_is_active(daemon) :
         LET status == get_xray_status(daemon, which, version, active)
         IN  obs' = [op |-> "check_xray_status",
                     probes |-> ProbesRun(which, version, active),
                     status |-> status, found |-> Finding(status)]
    /\ UNCHANGED <<users, keys, xray, nextUuid, procs, fs, inflight, last_sync, life,
                   now, subs, cs, daemon, boot>>

KeyOps == create_key \/ generate_key

Pass == full_sync_users \/ full_sync_keys \/ full_sync_returned

Checks ==
    \/ check_subscriptions_select
    \/ check_subscriptions_member
    \/ check_subscriptions_commit
    \/ check_subscriptions_restarted

\* the whole program
Next ==
    \/ \E p \in Procs : Handler(p)
    \/ (\E p \in Procs : get_or_create_user_select(p) \/ get_or_create_user_commit(p))
    \/ KeyOps
    \/ revoke_key
    \/ update_user_traffic
    \/ update_subscription_status
    \/ tick
    \/ Pass
    \/ cancel
    \/ full_sync_users_raised
    \/ full_sync_keys_raised
    \/ setup_bot_init_db \/ setup_bot_get_me \/ setup_bot_start_polling \/ setup_bot_sleep
    \/ Checks
    \/ service_stops \/ service_starts \/ binary_changes
    \/ check_xray_status
    \/ crash

Spec == Init /\ [][Next]_vars

\* the handlers and the key operations, without the reconciliation task
NextHandlers == (\E p \in Procs : Handler(p)) \/ KeyOps \/ crash

SpecHandlers == Init /\ [][NextHandlers]_vars

\* the reconciliation task next to one handler at a time
NextSync == Handler(1) \/ KeyOps \/ Pass \/ crash

SpecSync == Init /\ [][NextSync]_vars

\* one handler after the other, with nothing running next to it, and the
\* renew requests on record
NextRenew ==
    \/ cmd_start_select(1)
    \/ cmd_start_commit(1)
    \/ check_subscription_callback_begin(1)
    \/ check_subscription_callback_denied(1)
    \/ check_subscription_callback_user(1)
    \/ check_subscription_callback_key(1)
    \/ check_subscription_callback_added(1)
    \/ check_subscription_callback_commit(1)
    \/ renew_callback_from_user(1)
    \/ renew_callback_began(1)
    \/ renew_callback_removed(1)
    \/ renew_callback_added(1)
    \/ renew_callback_commit(1)
    \/ sync_on_action_begin(1)
    \/ sync_user_on_action_user(1)
    \/ sync_user_on_action_keys(1)
    \/ sync_user_on_action_removed(1)
    \/ sync_user_on_action_added(1)
    \/ sync_user_on_action_deleted(1)
    \/ sync_on_action(1)
    \/ sync_on_action_end(1)
    \/ create_key

SpecRenew == Init /\ [][NextRenew]_vars

\* the user upserts, interleaved
NextUpsert ==
    \E p \in Procs : \/ cmd_start_select(p)
                      \/ cmd_start_commit(p)
                      \/ get_or_create_user_select(p)
                      \/ get_or_create_user_commit(p)

SpecUpsert == Init /\ [][NextUpsert]_vars

\* the key operations of the Database class
NextRevoke ==
    \/ cmd_start_select(1)
    \/ cmd_start_commit(1)
    \/ KeyOps
    \/ revoke_key

SpecRevoke == Init /\ [][NextRevoke]_vars

\* the reconciliation task and its cancellation
NextCancel ==
    \/ cmd_start_select(1)
    \/ cmd_start_commit(1)
    \/ KeyOps
    \/ Pass
    \/ cancel

SpecCancel == Init /\ [][NextCancel]_vars

\* the reconciliation task, its cancellation and the exceptions of its selects
NextRaise ==
    \/ cmd_start_select(1)
    \/ cmd_start_commit(1)
    \/ KeyOps
    \/ Pass
    \/ cancel
    \/ full_sync_users_raised
    \/ full_sync_keys_raised

SpecRaise == Init /\ [][NextRaise]_vars

\* the startup coroutine by itself
NextBoot ==
    \/ setup_bot_init_db
    \/ setup_bot_get_me
    \/ setup_bot_start_polling
    \/ setup_bot_sleep

SpecBoot == Init /\ [][NextBoot]_vars

\* The periodic loop by itself, started over a store with two users and up
\* to MaxKeys keys: the task has been created and awaits its first sleep.
InitPeriodic ==
    /\ users = <<PlatformBase + 1, PlatformBase + 2>>
    /\ now = 0
    /\ \E len \in 0..MaxKeys :
         \E owner \in [1..len -> 1..NUsers], active \in [1..len -> BOOLEAN] :
             keys = [k \in 1..len |->
                        [UserKey(owner[k], k) EXCEPT !.is_active = active[k]]]
    /\ xray = {}
    /\ nextUuid = MaxKeys + 1
    /\ procs = [p \in Procs |-> Idle]
    /\ fs = [FsIdle EXCEPT !.pc = "sleep"]
    /\ inflight = {}
    /\ last_sync = 0
    /\ life = [t \in PlatformIds |-> 0]
    /\ subs = <<>>
    /\ cs = CsIdle
    /\ daemon = Service
    /\ obs = NoObs
    /\ boot = Started

NextPeriodic ==
    \/ start_periodic_sync_full_sync
    \/ start_periodic_sync_full_sync_raised
    \/ start_periodic_sync_sleep_raised
    \/ start_periodic_sync_sleep
    \/ full_sync_keys
    \/ full_sync_keys_raised
    \/ full_sync_returned

\* The event loop runs every callback that is ready (first in, first out):
\* a step of the loop that stays possible is taken.  A call of the pass
\* returns (the command of the daemon's API ends by itself), and the wait of
\* the try does not raise for ever: asyncio.sleep(300) raises no Exception.
SpecPeriodic ==
    /\ InitPeriodic
    /\ [][NextPeriodic]_vars
    /\ WF_vars(start_periodic_sync_sleep)
    /\ WF_vars(full_sync_keys \/ full_sync_keys_raised)
    /\ WF_vars(full_sync_returned)
    /\ SF_vars(start_periodic_sync_full_sync \/ start_periodic_sync_full_sync_raised)

\* expiry and quota: the clock, the traffic counters, a renew and the
\* reconciliation task
NextPolicy ==
    \/ cmd_start_select(1)
    \/ cmd_start_commit(1)
    \/ create_key
    \/ update_user_traffic
    \/ tick
    \/ renew_callback_key(1)
    \/ renew_callback_user(1)
    \/ renew_callback_removed(1)
    \/ renew_callback_added(1)
    \/ renew_callback_commit(1)
    \/ Pass

SpecPolicy == Init /\ [][NextPolicy]_vars

\* channel membership: the membership task, the subscriptions, the create
\* handler
NextMember ==
    \/ cmd_start_select(1)
    \/ cmd_start_commit(1)
    \/ check_subscription_callback_begin(1)
    \/ check_subscription_callback_denied(1)
    \/ check_subscription_callback_user(1)
    \/ check_subscription_callback_key(1)
    \/ check_subscription_callback_added(1)
    \/ check_subscription_callback_commit(1)
    \/ update_subscription_status
    \/ Checks

SpecMember == Init /\ [][NextMember]_vars

\* every coroutine that calls the daemon, interleaved (the handlers and one
\* pass of the reconciliation task)
NextConc ==
    \/ \E p \in Procs : Handler(p)
    \/ fs.n = 0 /\ full_sync_users
    \/ full_sync_keys
    \/ full_sync_returned

SpecConc == Init /\ [][NextConc]_vars

\* the create handler, /start and generate_key only
NextCreate ==
    \/ \E p \in Procs : \/ cmd_start_select(p)
                        \/ cmd_start_commit(p)
                        \/ check_subscription_callback_begin(p)
                        \/ check_subscription_callback_denied(p)
                        \/ check_subscription_callback_user(p)
                        \/ check_subscription_callback_key(p)
                        \/ check_subscription_callback_added(p)
                        \/ check_subscription_callback_commit(p)
    \/ generate_key

SpecCreate == Init /\ [][NextCreate]_vars

\* the properties of a key row, over every row of one key: expires_at is
\* None (0) or a time up to one unit after the last clock value, the limit and
\* the counter are any non-negative numbers up to MaxBytes.
InitLifecycle ==
    /\ users = <<PlatformBase + 1>>
    /\ \E expires_at \in 0..(MaxNow + 1), data_limit_bytes \in 0..MaxBytes,
          used_bytes \in 0..MaxBytes, is_active \in BOOLEAN :
         keys = <<[user_id |-> 1, uuid |-> 1, is_active |-> is_active,
                   expires_at |-> expires_at, data_limit_bytes |-> data_limit_bytes,
                   used_bytes |-> used_bytes]>>
    /\ now \in 0..MaxNow
    /\ xray = {}
    /\ nextUuid = 2
    /\ procs = [p \in Procs |-> Idle]
    /\ fs = FsIdle
    /\ inflight = {}
    /\ last_sync = 0
    /\ life = [t \in PlatformIds |-> 0]
    /\ subs = <<>>
    /\ cs = CsIdle
    /\ daemon = Service
    /\ obs = NoObs
    /\ boot = Started

NextLifecycle == read_is_expired \/ read_data_remaining \/ read_has_data

SpecLifecycle == InitLifecycle /\ [][NextLifecycle]_vars

\* the health check and the host
NextHealth == service_stops \/ service_starts \/ binary_changes \/ check_xray_status

SpecHealth == Init /\ [][NextHealth]_vars

\* ---------------------------------------------------------------- properties
AllIdle == \A p \in Procs : procs[p].pc = "idle"

\* the tags of the users that have an active key in the store
DesiredEmails == {Email(keys[k].user_id) : k \in AllActiveKeyIds}

\* C1: after any sequence of key-creating operations no user has more than
\* one key row with is_active = true.
C1_AtMostOneActiveKey ==
    \A u \in UserIds : Cardinality(ActiveKeyIds(u)) <= 1

\* C2: once every create request (and generate_key call) has finished, a user
\* for whom a key was created has exactly one active key, whatever the
\* interleaving was.
C2_ExactlyOneActiveAfterCreates ==
    AllIdle =>
        \A u \in UserIds :
            (\E k \in KeyIds : keys[k].user_id = u) => Cardinality(ActiveKeyIds(u)) = 1

\* C3: a reconciliation pass that ran to its end with zero errors, with no
\* handler in progress and nothing else changing store or daemon, leaves the
\* daemon holding exactly the tags of the users with an active key.
C3_PassRestoresEquality ==
    (fs.pc = "done" /\ fs.clean /\ fs.stats.errors = 0 /\ AllIdle)
        => XrayEmails = DesiredEmails

\* C4: a pass that begins right after a completed pass, with nothing changed
\* in between and no handler in progress, issues no call and returns all-zero
\* counts.
C4_SecondPassIsNoOp ==
    (fs.pc = "done" /\ fs.clean /\ fs.second /\ AllIdle)
        => (fs.stats = NoStats /\ fs.issued = {})

\* C5: a pass (nothing else changing store or daemon, no handler in progress)
\* issues Provision for exactly the tags desired and not observed, Remove for
\* exactly the tags observed and not desired, and nothing else.
C5_DiffIsExact ==
    (fs.pc = "done" /\ fs.clean /\ AllIdle)
        => fs.issued = {<<"add", e>> : e \in fs.D0 \ fs.O0}
                       \cup {<<"remove", e>> : e \in fs.O0 \ fs.D0}

\* C6: every daemon call issued for a user carries the tag computed from that
\* user's internal store id.
C6_TagFromInternalId ==
    \A c \in inflight : c.user # 0 => c.email = Email(c.user)

\* C7: after create, renew and delete of one user, each accepted by the
\* daemon, the user has no active key and the daemon holds no identity of
\* that user.
C7_RoundTripLeavesNothing ==
    \A t \in PlatformIds :
        life[t] = 3 =>
            /\ ActiveKeyIds(get_user(t)) = {}
            /\ \A r \in xray : r.email \notin {Email(get_user(t)), Email(t)}

InRenew(p) ==
    \/ procs[p].pc \in {"rn_remove", "rn_add", "rn_commit"}
    \/ procs[p].pc \in {"su_remove", "su_add"} /\ procs[p].action = "renew"

\* C8: within a renew, a Provision for the tag is issued only after the Remove
\* for that tag was issued and has returned.
C8_RemoveBeforeProvision ==
    \A p \in Procs :
        InRenew(p) =>
            \A i \in 1..Len(procs[p].hist) :
                (procs[p].hist[i][1] = "call" /\ procs[p].hist[i][2] = "add") =>
                    \E j \in 1..i, k \in 1..i :
                        /\ j < k /\ k < i
                        /\ procs[p].hist[j] = Ev("call", "remove", procs[p].hist[i][3], TRUE)
                        /\ \E ok \in BOOLEAN :
                             procs[p].hist[k] = Ev("ret", "remove", procs[p].hist[i][3], ok)

\* a renew handler whose Provision was issued, and accepted, after its Remove
C8_Witness ==
    \E p \in Procs : procs[p].pc = "rn_commit" /\ Len(procs[p].hist) = 4

\* C9: no two Provision/Remove calls for the same tag are in flight at the
\* same time.
C9_OneCallPerTag ==
    \A c1 \in inflight, c2 \in inflight : c1.email = c2.email => c1 = c2

\* a call is in flight for a user while another coroutine, suspended, is in
\* the middle of an operation on the same user
C9_Witness ==
    \E c \in inflight, p \in Procs :
        /\ c.proc # p
        /\ procs[p].pc \in {"rn_user", "su_keys", "rn_commit"}
        /\ procs[p].uid = c.user

\* the positions of db_users whose Provision the daemon refused
FailedAt == {x[1] : x \in fs.failed}

\* C10: when the daemon refuses exactly one Provision of a pass, every other
\* user of the pass is provisioned and the summary counts one error and all
\* the others as added.
C10_FailureIsIsolated ==
    (fs.pc = "done" /\ fs.clean /\ Cardinality(fs.failed) = 1)
        => /\ fs.stats.errors = 1
           /\ fs.stats.added = Len(fs.db_users) - 1
           /\ \A j \in 1..Len(fs.db_users) :
                 (\A x \in fs.failed : x[2] # Email(fs.db_users[j])) =>
                     [email |-> Email(fs.db_users[j]),
                      uuid |-> fs.active_keys[fs.db_users[j]]] \in xray

\* a pass over two users in which the first Provision was refused and the
\* second one accepted
C10_Witness ==
    /\ fs.pc = "done" /\ fs.clean
    /\ Len(fs.db_users) = 2
    /\ FailedAt = {1}
    /\ fs.stats.added = 1

\* the daemon calls a sync has issued so far
CallsOf(p) == {i \in 1..Len(procs[p].hist) : procs[p].hist[i][1] = "call"}

\* C11: sync_user_on_action(user, 'create') for a user without an active key
\* returns failure and issues no daemon call; for a user with an active key it
\* issues exactly one Provision, with that key's uuid and the user's tag.
C11_CreateSync ==
    \A p \in Procs :
        (procs[p].action = "create" /\ procs[p].uid # 0) =>
            /\ procs[p].pc = "su_add" =>
                 /\ procs[p].key \in ActiveKeyIds(procs[p].uid)
                 /\ CallOf(p) = Call(p, "add", Email(procs[p].uid),
                                     keys[procs[p].key].uuid, procs[p].uid)
            /\ procs[p].pc = "su_ret" =>
                 IF procs[p].key = 0
                 THEN /\ ActiveKeyIds(procs[p].uid) = {}
                      /\ ~procs[p].ret
                      /\ procs[p].hist = <<>>
                 ELSE /\ Cardinality(CallsOf(p)) = 1
                      /\ procs[p].hist[1] = Ev("call", "add", Email(procs[p].uid), TRUE)

\* a 'create' sync of a user with an active key has returned success
C11_Witness ==
    \E p \in Procs :
        /\ procs[p].pc = "su_ret" /\ procs[p].action = "create"
        /\ procs[p].key # 0 /\ procs[p].ret

\* C17: a Remove under a tag the daemon does not hold returns success.
C17_RemoveMissingSucceeds ==
    \A p \in Procs :
        (procs[p].pc = "su_ret" /\ procs[p].action = "delete"
            /\ procs[p].out = "missing") => procs[p].ret

\* what makes a per-identity sync a failed one: no user, no active key for
\* create or renew, or a daemon call that failed
SyncFailed(p) ==
    \/ procs[p].uid = 0
    \/ procs[p].action \in {"create", "renew"} /\ procs[p].key = 0
    \/ \E i \in 1..Len(procs[p].hist) :
          procs[p].hist[i][1] = "ret" /\ ~procs[p].hist[i][4]

\* C20: a failed per-identity sync returns failure to its caller and is not
\* logged as completed.
C20_FailureIsReported ==
    \A p \in Procs :
        (procs[p].pc = "su_ret" /\ SyncFailed(p)) =>
            (~procs[p].ret /\ procs[p].log # "completed")

\* C20, the result alone: a failed per-identity sync returns failure.
C20_FailureIsReturned ==
    \A p \in Procs :
        (procs[p].pc = "su_ret" /\ SyncFailed(p)) => ~procs[p].ret

\* C18: the uuid of a key row never changes once the row exists (a renew
\* inserts a new row instead of overwriting the uuid of the old one).
C18_UuidNeverChanges ==
    [][\A k \in KeyIds : keys'[k].uuid = keys[k].uuid]_vars

\* C12: after a full reconciliation pass no key that was expired or out of
\* quota when the pass began is still active, and the pass has issued a Remove
\* and no Provision for the tag of that key's user.
C12_LapsedKeysAreRevoked ==
    (fs.pc = "done" /\ fs.clean) =>
        \A k \in fs.X0 :
            /\ ~keys[k].is_active
            /\ <<"remove", Email(keys[k].user_id)>> \in fs.issued
            /\ <<"add", Email(keys[k].user_id)>> \notin fs.issued

\* C19: the used_bytes of a key row never decreases.
C19_UsageNeverDecreases ==
    [][\A k \in KeyIds : keys'[k].used_bytes >= keys[k].used_bytes]_vars

\* C13: when the membership task finds a user with an active subscription no
\* longer a member, then after its pass the subscription is inactive, the user
\* has no active key and a Remove for the user's tag has been issued.
C13_LapsedMemberIsRevoked ==
    cs.pc = "done" =>
        \A u \in cs.lapsed :
            /\ ~subs[u]
            /\ ActiveKeyIds(u) = {}
            /\ <<"remove", Email(u)>> \in cs.calls

\* C13, the subscription alone: after the pass it is inactive.
C13_SubscriptionIsInactive ==
    cs.pc = "done" => \A u \in cs.lapsed : ~subs[u]

\* C14: a membership query that fails counts as "not a member": the
\* membership task sets that user's subscription inactive, and the create
\* handler goes no further than its refusal.
C14_ErrorIsNotAMember ==
    /\ cs.pc \in {"restart", "done"} => \A u \in cs.errored : ~subs[u]
    /\ \A p \in Procs : procs[p].qerr => procs[p].pc = "cs_denied"

\* a membership pass has ended in which a query failed, and a create handler
\* whose query failed is at its refusal
C14_Witness ==
    /\ cs.pc = "done" /\ cs.errored # {}
    /\ \E p \in Procs : procs[p].qerr /\ procs[p].pc = "cs_denied"

\* the answers that stand for a daemon that could not be reached (subprocess.run
\* is given no timeout)
Transient == {"unreachable"}

\* C15: a Provision or Remove that failed because the daemon could not be
\* reached is reported as failed only after it was tried again.
C15_TransientIsRetried ==
    (fs.pc = "done" /\ fs.clean) =>
        \A x \in fs.failed : x[3] \in Transient => x[4] > 1

\* C16: adding an identity under a tag the daemon already holds is a success,
\* also when the daemon answers that the identity exists.
C16_AddExistingSucceeds ==
    (fs.pc = "done" /\ fs.clean) =>
        \A x \in fs.failed : x[3] # "exists"

\* C21: whatever the probes of get_xray_status do (the lookup of the binary
\* fails, the version query or the service query exits non-zero, any of them
\* raises), the call returns a status record with the fields installed,
\* running and version and does not raise; a failed probe shows in the
\* fields only: the status is not the one of a healthy service.
C21_StatusNeverRaises ==
    obs.op = "check_xray_status" =>
        /\ ~obs.status.raised
        /\ {"installed", "running", "version", "error"} \subseteq DOMAIN obs.status
        /\ (\E i \in 1..Len(obs.probes) : obs.probes[i] # "zero")
              => ~(obs.status.installed /\ obs.status.running
                   /\ obs.status.error = "None")

C21_Witness ==
    /\ obs.op = "check_xray_status"
    /\ obs.probes = <<"zero", "zero", "raises">>
    /\ obs.status.installed /\ obs.status.error # "None"

\* C28: when the periodic health check finds the daemon installed but not
\* running, it restarts the daemon: the check issues a restart, or the
\* service runs after it.
C28_StoppedDaemonIsRestarted ==
    [][(/\ obs' # obs
        /\ obs'.op = "check_xray_status"
        /\ obs'.found = "Xray service is not running")
       => (daemon'.running \/ \E c \in inflight' : c.op = "restart")]_vars

\* C22: for every key and reference time, is_expired is true exactly when the
\* key has an expiry time and the reference time is strictly after it: a key
\* without expiry time is never expired, a key is not expired at its expiry
\* time nor one unit before it, and it is expired one unit after it.
C22_ExpiredStrictlyAfter ==
    obs.op = "is_expired" =>
        /\ obs.ret <=> (obs.key.expires_at # 0 /\ obs.now > obs.key.expires_at)
        /\ obs.key.expires_at = 0 => ~obs.ret
        /\ obs.key.expires_at # 0 /\ obs.now = obs.key.expires_at => ~obs.ret
        /\ obs.key.expires_at # 0 /\ obs.key.expires_at = obs.now - 1 => obs.ret
        /\ obs.key.expires_at = obs.now + 1 => ~obs.ret

C22_Witness ==
    /\ obs.op = "is_expired"
    /\ obs.key.expires_at # 0
    /\ obs.now = obs.key.expires_at
    /\ ~obs.ret

\* C23: for all non-negative used_bytes and data_limit_bytes, has_data is
\* false exactly when used_bytes >= data_limit_bytes (false at the limit, true
\* one below it), and data_remaining is never negative.
C23_ExhaustedAtLimit ==
    /\ obs.op = "has_data" =>
          /\ ~obs.ret <=> obs.key.used_bytes >= obs.key.data_limit_bytes
          /\ obs.key.used_bytes = obs.key.data_limit_bytes => ~obs.ret
          /\ obs.key.used_bytes = obs.key.data_limit_bytes - 1 => obs.ret
    /\ obs.op = "data_remaining" =>
          /\ obs.ret >= 0
          /\ obs.key.used_bytes <= obs.key.data_limit_bytes
                => obs.ret = obs.key.data_limit_bytes - obs.key.used_bytes

C23_Witness ==
    /\ obs.op = "has_data"
    /\ obs.key.data_limit_bytes > 0
    /\ obs.key.used_bytes = obs.key.data_limit_bytes
    /\ ~obs.ret

\* C24: in every full_sync pass, whatever identities the daemon holds, the
\* observed set is empty, no Remove call is issued and the count 'removed' of
\* the returned statistics is 0.
C24_RemovalSideIsInert ==
    /\ fs.xray_users = {}
    /\ \A c \in fs.issued : c[1] # "remove"
    /\ \A c \in inflight : c.proc = FS => c.op # "remove"
    /\ fs.pc # "fs_remove"
    /\ fs.stats.removed = 0

\* a pass is over that began while the daemon held a tag without active key
C24_Witness ==
    /\ fs.pc = "done"
    /\ fs.O0 \ fs.D0 # {}

\* C25: once the cancellation of a full_sync pass has been signalled, the
\* pass starts no further Provision or Remove call; a call in flight is not
\* dropped by the cancellation, and the step that ends the pass leaves the
\* store as it was.
C25_NoCallAfterCancel ==
    /\ [](fs.late = {})
    /\ [][fs'.pc = "cancelled" /\ fs.pc # "cancelled"
           => /\ inflight' = inflight
              /\ UNCHANGED <<users, keys, subs, xray>>]_vars

\* a cancelled pass is over although the store holds an active key
C25_Witness ==
    /\ fs.pc = "cancelled"
    /\ fs.must_cancel
    /\ AllActiveKeyIds # {}

\* C26: revoke_key on a key that exists and is already inactive returns True
\* and leaves the store as it was; revoke_key applied twice to a key gives the
\* same store and the same result as applied once.
C26_RevokeIsIdempotent ==
    obs.op = "revoke_key" =>
        /\ (obs.key_id \in DOMAIN obs.before /\ ~obs.before[obs.key_id].is_active)
              => (obs.once.ret /\ obs.once.keys = obs.before)
        /\ obs.twice = obs.once

C26_Witness ==
    /\ obs.op = "revoke_key"
    /\ obs.key_id \in DOMAIN obs.before
    /\ ~obs.before[obs.key_id].is_active
    /\ obs.once.ret

C29_RestartOnlyAfterChange ==
    <<"restart", <<>>>> \in cs.calls => cs.dirty # {}

\* C30: for a handler wrapped by sync_on_action the sync of the user is called
\* only after the handler body is over, and at most once per invocation; when
\* the handler raises no sync call is made; when the sync fails the wrapper
\* still returns the handler's result unchanged.
C30_SyncAfterBody ==
    \A p \in Procs :
        /\ procs[p].syncs <= 1
        /\ procs[p].syncs = 1 => procs[p].body = "returned"
        /\ procs[p].body \in {"running", "raised"} =>
              /\ procs[p].syncs = 0
              /\ procs[p].hist = <<>>
              /\ \A c \in inflight : c.proc # p
              /\ procs[p].returned = "none"
        /\ procs[p].pc = "so_ret" => procs[p].returned = procs[p].result

\* the sync of a wrapped handler has failed at the daemon and the wrapper has
\* returned the handler's result
C30_Witness ==
    \E p \in Procs :
        /\ procs[p].pc = "so_ret"
        /\ procs[p].syncs = 1
        /\ ~procs[p].ret
        /\ procs[p].hist # <<>>
        /\ procs[p].returned = "result"

\* a renew that has issued its Remove and not yet got the answer to its
\* Provision
InRenewPair(p) ==
    \/ procs[p].pc \in {"rn_remove", "rn_add"}
    \/ procs[p].pc \in {"su_remove", "su_add"} /\ procs[p].action = "renew"

\* C31: no daemon call of another handler or of a periodic pass comes between
\* the Remove and the Provision of one renew (handler or per-identity sync):
\* while the pair runs every call in flight is the renew's own, and once the
\* Remove has returned the Provision has been issued, with no suspension
\* point in between.
C31_RenewPairIsAtomic ==
    \A p \in Procs :
        InRenewPair(p) =>
            /\ \A c \in inflight : c.proc = p
            /\ inflight # {}
            /\ (\E i \in 1..Len(procs[p].hist) :
                    procs[p].hist[i][1] = "ret" /\ procs[p].hist[i][2] = "remove")
                 => \E j \in 1..Len(procs[p].hist) :
                        procs[p].hist[j][1] = "call" /\ procs[p].hist[j][2] = "add"

\* the Provision of a renew is in flight while another coroutine and a pass
\* are suspended in the middle of their work
C31_Witness ==
    \E p \in Procs, q \in Procs :
        /\ p # q
        /\ InRenewPair(p)
        /\ Waiting(p, "add")
        /\ procs[q].pc \notin {"idle", "so_body"}
        /\ procs[q].uid = procs[p].uid
        /\ fs.pc = "fs_keys"

\* C32: after a renew attempt that began in a consistent state, whenever the
\* store holds an active key of the user the daemon holds an identity under
\* the user's tag with the uuid of that key; a renew whose Remove was accepted
\* and whose Provision was refused does not leave an active key the daemon no
\* longer accepts.
C32_ActiveKeyIsAccepted ==
    [][\A p \in Procs :
          (/\ obs.op = "renew_callback"
           /\ obs.began_ok
           /\ procs[p].pc \in {"rn_add", "rn_commit"}
           /\ procs'[p].pc = "idle")
          => Accepted(keys', xray', procs[p].uid)]_vars

\* C33: after a full_sync pass in which every daemon call succeeded (nothing
\* else changing store or daemon during the pass, no handler in progress)
\* every user with an active key has an identity under its tag in the daemon
\* with the uuid of that key.
C33_PassProvisionsActiveKeys ==
    (fs.pc = "done" /\ fs.clean /\ fs.stats.errors = 0 /\ AllIdle)
        => \A k \in AllActiveKeyIds :
               [email |-> Email(keys[k].user_id), uuid |-> keys[k].uuid] \in xray

\* the same for the stores in which no user has two active keys (this one holds)
C33_OneKeyPerUser ==
    C1_AtMostOneActiveKey => C33_PassProvisionsActiveKeys

\* C34: a renew request changes only a key of the requesting user: the renew
\* handler issues its Remove (and then provisions an identity and rewrites
\* the key K) only if K belongs to the User row of the sender of the request.
C34_RenewOnlyOwnKey ==
    [][\A p \in Procs :
          (procs[p].pc = "rn_user" /\ procs'[p].pc = "rn_remove")
          => keys[procs[p].key].user_id = get_user(obs.from_user)]_vars

\* the positions of the create handler after its first await
CreatePcs == {"cs_denied", "cs_user", "cs_key", "cs_add", "cs_commit"}

\* process p takes a step of the create handler
CreateStep(p) ==
    /\ procs'[p] # procs[p]
    /\ procs[p].pc \in CreatePcs \/ procs'[p].pc \in CreatePcs

\* C35: when add_vless_user fails in the create handler the handler ends with
\* no key row inserted and users, keys and subscriptions as they were (no
\* step of the handler before its commit writes the store); the handler
\* inserts a key row only in its commit, after the daemon accepted the
\* identity, and the row carries the uuid that was accepted.
C35_NoKeyWithoutProvision ==
    [][\A p \in Procs :
          CreateStep(p) =>
              /\ users' = users /\ subs' = subs
              /\ (procs[p].pc = "cs_add" /\ procs'[p].pc = "idle")
                    => keys' = keys /\ xray' = xray
              /\ keys' # keys
                    => /\ procs[p].pc = "cs_commit"
                       /\ procs[p].ret
                       /\ keys' = Append(keys, UserKey(procs[p].uid, procs[p].uuid))]_vars

\* a first add_vless_user (uuid 1) was refused and left nothing; a second one
\* (uuid 2) was accepted and its key row is in the store
C35_Witness ==
    /\ AllIdle
    /\ nextUuid = 3
    /\ Len(keys) = 1
    /\ keys[1].uuid = 2
    /\ \A r \in xray : r.uuid = 2
    /\ xray # {}

\* this step is one in which a select of full_sync raises an Exception
ExceptionStep ==
    /\ fs'.pc = "failed"
    /\ fs.pc = "fs_keys" \/ fs'.n = fs.n + 1

\* the pass f has issued the Provision of every user of db_users that has an
\* active key and no identity in xray_users
RanToTheEnd(f) ==
    \A j \in 1..Len(f.db_users) :
        (f.db_users[j] \in DOMAIN f.active_keys /\ Email(f.db_users[j]) \notin f.xray_users)
            => <<"add", Email(f.db_users[j])>> \in f.issued

\* an Exception raised in the pass ends the pass (no call of the pass is in
\* flight, none is issued), adds exactly one to 'errors' and leaves 'added',
\* 'removed' and last_sync as they were; last_sync changes only in the step
\* that ends a pass after both loops; a CancelledError leaves full_sync with
\* the counters and last_sync unchanged
ExceptionCounted ==
    /\ ExceptionStep
          => /\ fs'.stats = [IF fs.pc = "fs_keys" THEN fs.stats ELSE NoStats
                               EXCEPT !.errors = @ + 1]
             /\ last_sync' = last_sync
             /\ \A c \in inflight' : c.proc # FS
    /\ fs.pc = "failed" => \A c \in inflight : c.proc # FS
    /\ last_sync' # last_sync
          => /\ fs.pc \in {"fs_keys", "fs_add", "fs_remove"}
             /\ fs'.pc = "done"
             /\ last_sync' = fs'.n
             /\ fs'.clean => RanToTheEnd(fs')
    /\ (fs'.pc = "cancelled" /\ fs.pc # "cancelled")
          => fs'.stats = fs.stats /\ last_sync' = last_sync

C37_AnotherPassStarts ==
    \A k \in 0..(MaxPasses - 1) :
        (fs.n = k /\ fs.pc \in {"done", "failed", "retry"}) ~> (fs.n = k + 1)

\* the second pass has issued a call after a first pass whose select raised
\* (last_sync was never set)
C37_Witness ==
    /\ fs.n = 2
    /\ fs.pc = "fs_add"
    /\ last_sync = 0

\* this step is the failure of an attempt of setup_bot
AttemptFails == Len(boot'.fails) = Len(boot.fails) + 1

\* C38: setup_bot makes at most max_retries = 5 attempts; an attempt that
\* fails before the fifth is followed by the wait and then by exactly one
\* further attempt (a new attempt begins only there); the failure of the
\* fifth attempt leaves setup_bot as its exception; when start_polling
\* returns the loop is over; nothing follows the return or the exception, so
\* there are never more failures than attempts and never more than five.
C38_AtMostFiveAttempts ==
    [][/\ boot.attempt < max_retries /\ boot'.attempt < max_retries
       /\ AttemptFails
             => /\ boot'.attempt = boot.attempt
                /\ boot'.pc = IF boot.attempt < max_retries - 1 THEN "sleep" ELSE "raised"
                /\ boot.pc \in {"init_db", "get_me", "polling"}
       /\ boot.pc = "sleep"
             => boot'.pc = "init_db" /\ boot'.attempt = boot.attempt + 1
                                    /\ boot'.fails = boot.fails
       /\ boot'.attempt # boot.attempt => boot.pc = "sleep"
       /\ (boot.pc = "polling" /\ ~AttemptFails) => boot'.pc = "returned"
       /\ boot'.pc = "returned" => boot.pc = "polling" /\ ~AttemptFails
       /\ boot.pc \in {"returned", "raised"} => boot' = boot
       /\ Len(boot'.fails) = boot'.attempt + (IF boot'.pc \in {"sleep", "raised"} THEN 1 ELSE 0)
       /\ Len(boot'.fails) <= max_retries]_vars

\* five attempts have failed and the exception of the fifth has left setup_bot
C38_Witness ==
    /\ boot.pc = "raised"
    /\ boot.attempt = max_retries - 1
    /\ Len(boot.fails) = max_retries
====
